---- MODULE Spec2Model ----
(***************************************************************************)
(* Model of server.js: the upload route, processCSV and validateEmail.     *)
(* One action is one turn of the Node event loop (a stream event or a DNS  *)
(* callback) together with the promise continuations it runs to            *)
(* completion before the next event is taken.                              *)
(***************************************************************************)
EXTENDS Integers, Sequences, FiniteSets, TLC

\* ------------------------------------------------------------------ bounds
\* Longest input file, in rows.
MaxRows == 2
\* Number of upload requests the server may receive.
NumRuns == 2

Runs == 1 .. NumRuns
\* The runs of the sequential specification: one upload, no other run.
SoloRuns == {1}

\* ------------------------------------------------------------ input texts
\* A piece of text is a sequence of tokens.  A token is a maximal run of
\* non-blank characters, split at its '@' and at the last '.' after it, or a
\* run of blanks (l = " ").
Tok(l, d, tld) == [l |-> l, d |-> d, tld |-> tld]
Blank == Tok(" ", "", "")
Word(w) == Tok(w, "", "")

TokStr(t) ==
    IF t.d = "" THEN t.l
    ELSE t.l \o "@" \o t.d \o (IF t.tld = "" THEN "" ELSE "." \o t.tld)

RECURSIVE FieldStr(_)
FieldStr(f) == IF f = <<>> THEN "" ELSE TokStr(Head(f)) \o FieldStr(Tail(f))

\* String.prototype.trim: drop the leading and the trailing blanks.
RECURSIVE TrimLeft(_)
TrimLeft(f) ==
    IF f # <<>> /\ Head(f) = Blank THEN TrimLeft(Tail(f)) ELSE f

RECURSIVE TrimRight(_)
TrimRight(f) ==
    IF f # <<>> /\ f[Len(f)] = Blank
    THEN TrimRight(SubSeq(f, 1, Len(f) - 1))
    ELSE f

Trim(f) == TrimLeft(TrimRight(f))

\* emailRegex: local part, '@', domain, '.', a top-level label of >= 2 letters.
MinTldLen == 2
emailRegex(t) == t.l # "" /\ t.l # " " /\ t.d # "" /\ Len(t.tld) >= MinTldLen

\* url.match(emailRegex) || []: every match, left to right.
RECURSIVE Match(_)
Match(f) ==
    IF f = <<>> THEN <<>>
    ELSE (IF emailRegex(Head(f)) THEN <<Head(f)>> ELSE <<>>) \o Match(Tail(f))

\* The text of an email and its domain, email.split("@")[1].
EmailStr(e) == TokStr(e)
Domain(e) == e.d \o "." \o e.tld

BLACKLISTED_DOMAINS == {"sentry.io", "example.com", "test.com"}

\* The emails and the rows the input files are made of.
alice == Tok("alice", "foo", "com")
bob == Tok("bob", "foo", "com")
sentry == Tok("user", "sentry", "io")
local == Tok("root", "localhost", "")

RowPool ==
    { << <<Word("Bob")>>, <<Word("contact"), Blank, bob, Blank, local, Blank, alice>> >>,
      << <<Blank, Word("Eve"), Blank>>, <<Blank, sentry, Blank, alice, Blank>> >>,
      << <<alice>> >> }

\* The rows of the concurrent specification's input files.
RowPoolConc ==
    { << <<Word("Alice")>>, <<alice>> >>,
      << <<Word("Bob")>>, <<bob>> >> }

\* The rows of the input files of two uploads that both reach the write
\* stage: one can collect two entries, the other one.
RowPoolWrite ==
    { << <<Word("Alice")>>, <<alice>> >>,
      << <<Word("Bob")>>, <<bob, Blank, alice>> >> }

\* ------------------------------------------------------------------ state
VARIABLES
    reader,     \* per run: "idle", "reading", "ended" ('end'), "error" ('error'),
                \* "nofile" (request without a file), "readfail" (file unreadable)
    rows,       \* per run: the rows the parser has emitted as 'data'
    hand,       \* per run, per row: the data handler's name, extractedEmails
                \* and position k in its loop (k > Len(cands): ended)
    emails,     \* per run: the Set `emails`
    results,    \* per run: the array `results`
    src,        \* per run: for each entry of results, its <<row, position>>
    vlog,       \* per run: the validateEmail calls and their MX lookups
    resp,       \* per run: the response of the upload route
    ws,         \* per run: the write stream of the 'end' handler
    artifact,   \* the file uploads/emails.csv
    prior,      \* the file uploads/emails.csv when the server started
    crashed,    \* the process died of an uncaught exception
    dl          \* the last answer of the download route

vars == <<reader, rows, hand, emails, results, src, vlog, resp, ws, artifact,
          prior, crashed, dl>>

\* ------------------------------------------------------- pure definitions
\* The names `key in emails` answers true for: the properties of a Set
\* object, all of them inherited (Set.prototype, Object.prototype).  The
\* members of the set are not properties of it.
SetProperties ==
    {"add", "clear", "constructor", "delete", "entries", "forEach", "has",
     "keys", "size", "values", "hasOwnProperty", "isPrototypeOf",
     "propertyIsEnumerable", "toLocaleString", "toString", "valueOf",
     "__proto__"}

\* `email in emails`
InOperator(email, set) == EmailStr(email) \in SetProperties

\* Locals with the length test off by one and the last field scanned.
Locals_AnyRow(row) ==
    IF Len(row) >= 1
    THEN [name |-> FieldStr(Trim(row[1])), cands |-> Match(Trim(row[Len(row)]))]
    ELSE [name |-> "", cands |-> <<>>]

\* The locals of the data handler for a row: name and extractedEmails when
\* row.length >= 2; a shorter row is given neither, and has no loop to run.
Locals(row) ==
    IF Len(row) >= 2
    THEN [name |-> FieldStr(Trim(row[1])), cands |-> Match(Trim(row[2]))]
    ELSE [name |-> "", cands |-> <<>>]

\* What dns.resolveMx hands to its callback: err, and addresses.length.
MxOutcomes ==
    {[err |-> TRUE, n |-> 0], [err |-> FALSE, n |-> 0], [err |-> FALSE, n |-> 1]}

\* MxAccepts without the test of addresses.length.
MxAccepts_NoLengthTest(out) == ~out.err

\* !err && addresses && addresses.length > 0
MxAccepts(out) == ~out.err /\ out.n > 0

\* MxSettles with the callback rejecting on a lookup error.
MxSettles_RejectOnError(out) == IF out.err THEN "reject" ELSE "resolve"

\* How the promise of validateEmail settles when the lookup's callback
\* runs: the callback only ever calls resolve.
MxSettles(out) == "resolve"

\* validateEmail with the blacklist asked about the email, not its domain.
validateEmail_WholeEmail(email) ==
    IF EmailStr(email) \in BLACKLISTED_DOMAINS THEN "false" ELSE "lookup"

\* validateEmail up to its first suspension: "false" when the domain is
\* blacklisted (resolved at once), "lookup" when dns.resolveMx was called.
validateEmail(email) ==
    IF Domain(email) \in BLACKLISTED_DOMAINS THEN "false" ELSE "lookup"

\* An entry of vlog: the validateEmail call for candidate pos of row `row`.
\* mx: "none" (no lookup), "pending", "done"; res: "pending", "true", "false".
Call(row, pos, email, mx, out, res) ==
    [row |-> row, pos |-> pos, email |-> email, mx |-> mx,
     err |-> out.err, n |-> out.n, res |-> res]

NoOutcome == [err |-> FALSE, n |-> 0]

\* The for loop of the data handler from candidate k on, run until it
\* suspends on a lookup or ends: the position it stops at (Len + 1: ended).
RECURSIVE LoopPos(_, _, _)
LoopPos(cands, k, set) ==
    IF k > Len(cands) THEN k
    ELSE IF InOperator(cands[k], set) THEN LoopPos(cands, k + 1, set)
    ELSE IF validateEmail(cands[k]) = "false" THEN LoopPos(cands, k + 1, set)
    ELSE k

\* The validateEmail calls that loop makes on its way.
RECURSIVE LoopCalls(_, _, _, _)
LoopCalls(i, cands, k, set) ==
    IF k > Len(cands) THEN {}
    ELSE IF InOperator(cands[k], set) THEN LoopCalls(i, cands, k + 1, set)
    ELSE IF validateEmail(cands[k]) = "false"
         THEN {Call(i, k, cands[k], "none", NoOutcome, "false")}
              \cup LoopCalls(i, cands, k + 1, set)
    ELSE {Call(i, k, cands[k], "pending", NoOutcome, "pending")}

\* The artifact's lines and the response's list are pairs of strings.
Header == <<"Name", "Email">>
CsvRow(entry) == <<entry.name, EmailStr(entry.email)>>

\* csv.write([["Name", "Email"], ...results], { headers: true }): the header
\* line, then one line per entry.
CsvWrite(rs) == <<Header>> \o [j \in 1 .. Len(rs) |-> CsvRow(rs[j])]

\* res.json({ file, emails: results }): each entry as [name, email].
JsonList(rs) == [j \in 1 .. Len(rs) |-> <<rs[j].name, EmailStr(rs[j].email)>>]

OutputFilePath == "uploads/emails.csv"

NoResponse == [status |-> 0, body |-> "none", file |-> "", emails |-> <<>>]
StatusOk == 200
StatusError == 500
StatusBadRequest == 400
StatusNotFound == 404

NoDownload == [path |-> "", status |-> 0, produced |-> FALSE]

\* A write of one line at a descriptor's own offset; the bytes between the
\* end of the file and the offset read as empty lines.
Hole == <<"", "">>
WriteAt(lines, off, line) ==
    [j \in 1 .. (IF off + 1 > Len(lines) THEN off + 1 ELSE Len(lines)) |->
        IF j = off + 1 THEN line
        ELSE IF j <= Len(lines) THEN lines[j]
        ELSE Hole]

NoStream == [st |-> "none", data |-> <<>>, off |-> 0]

Absent == [exists |-> FALSE, lines |-> <<>>]
PriorArtifact ==
    [exists |-> TRUE,
     lines |-> <<Header, <<"Old", "old@foo.com">>, <<"Older", "older@foo.com">>>>]

\* ------------------------------------------------------------------- Init
Init ==
    /\ reader = [r \in Runs |-> "idle"]
    /\ rows = [r \in Runs |-> <<>>]
    /\ hand = [r \in Runs |-> <<>>]
    /\ emails = [r \in Runs |-> {}]
    /\ results = [r \in Runs |-> <<>>]
    /\ src = [r \in Runs |-> <<>>]
    /\ vlog = [r \in Runs |-> {}]
    /\ resp = [r \in Runs |-> NoResponse]
    /\ ws = [r \in Runs |-> NoStream]
    /\ artifact \in {Absent, PriorArtifact}
    /\ prior = artifact
    /\ crashed = FALSE
    /\ dl = NoDownload

\* ---------------------------------------------------------------- actions
\* POST /upload with a file: processCSV starts reading it.
Upload(r) ==
    /\ ~crashed
    /\ reader[r] = "idle"
    /\ reader' = [reader EXCEPT ![r] = "reading"]
    /\ UNCHANGED <<rows, hand, emails, results, src, vlog, resp, ws, artifact,
                   prior, crashed, dl>>

\* UploadNoFile without the test of req.file: processCSV(req.file.path)
\* throws inside the try block and the route answers 500.
UploadNoFile_NoTest(r) ==
    /\ ~crashed
    /\ reader[r] = "idle"
    /\ reader' = [reader EXCEPT ![r] = "nofile"]
    /\ resp' = [resp EXCEPT ![r] =
                   [status |-> StatusError, body |-> "error", file |-> "",
                    emails |-> <<>>]]
    /\ UNCHANGED <<rows, hand, emails, results, src, vlog, ws, artifact, prior,
                   crashed, dl>>

\* POST /upload without a file: the route answers 400 and returns.
UploadNoFile(r) ==
    /\ ~crashed
    /\ reader[r] = "idle"
    /\ reader' = [reader EXCEPT ![r] = "nofile"]
    /\ resp' = [resp EXCEPT ![r] =
                   [status |-> StatusBadRequest, body |-> "error", file |-> "",
                    emails |-> <<>>]]
    /\ UNCHANGED <<rows, hand, emails, results, src, vlog, ws, artifact, prior,
                   crashed, dl>>

\* The read stream of the uploaded file emits 'error' (the file cannot be
\* opened or read).  The 'error' listener of processCSV is on the parser the
\* file is piped into, not on the read stream: nothing listens, and the
\* process dies of the uncaught exception.
ReadFail(r) ==
    /\ ~crashed
    /\ reader[r] = "reading"
    /\ reader' = [reader EXCEPT ![r] = "readfail"]
    /\ crashed' = TRUE
    /\ UNCHANGED <<rows, hand, emails, results, src, vlog, resp, ws, artifact,
                   prior, dl>>

\* The parser emits 'data' with the next row: the handler runs until its
\* first lookup (or to its end).
ReadRow(r, row, max) ==
    /\ ~crashed
    /\ reader[r] = "reading"
    /\ Len(rows[r]) < max
    /\ LET i == Len(rows[r]) + 1
           h == Locals(row)
       IN /\ rows' = [rows EXCEPT ![r] = Append(@, row)]
          /\ hand' = [hand EXCEPT ![r] = Append(@,
                [name |-> h.name, cands |-> h.cands,
                 k |-> LoopPos(h.cands, 1, emails[r])])]
          /\ vlog' = [vlog EXCEPT ![r] = @ \cup LoopCalls(i, h.cands, 1, emails[r])]
    /\ UNCHANGED <<reader, emails, results, src, resp, ws, artifact, prior,
                   crashed, dl>>

\* LookupDone with `emails` and `results` declared once for the module
\* instead of once per processCSV call: every run sees the same two objects.
LookupDone_SharedState(r, i, out) ==
    /\ ~crashed
    /\ i \in 1 .. Len(rows[r])
    /\ LET cands == hand[r][i].cands
           k == hand[r][i].k
       IN /\ k <= Len(cands)
          /\ LET e == cands[k]
                 ok == MxAccepts(out)
                 set == IF ok THEN emails[r] \cup {e} ELSE emails[r]
                 pending == Call(i, k, e, "pending", NoOutcome, "pending")
             IN IF MxSettles(out) = "reject"
                THEN /\ crashed' = TRUE
                     /\ vlog' = [vlog EXCEPT ![r] =
                           (@ \ {pending}) \cup {Call(i, k, e, "done", out, "thrown")}]
                     /\ UNCHANGED <<emails, results, src, hand>>
                ELSE /\ emails' = [q \in Runs |->
                           IF ok THEN emails[q] \cup {e} ELSE emails[q]]
                     /\ results' = [q \in Runs |->
                           IF ok
                           THEN Append(results[q],
                                       [name |-> hand[r][i].name, email |-> e])
                           ELSE results[q]]
                     /\ src' = [q \in Runs |->
                           IF ok THEN Append(src[q], <<i, k>>) ELSE src[q]]
                     /\ hand' = [hand EXCEPT ![r][i].k = LoopPos(cands, k + 1, set)]
                     /\ vlog' = [vlog EXCEPT ![r] =
                           (@ \ {pending})
                           \cup {Call(i, k, e, "done", out,
                                      IF ok THEN "true" ELSE "false")}
                           \cup LoopCalls(i, cands, k + 1, set)]
                     /\ UNCHANGED crashed
    /\ UNCHANGED <<reader, rows, resp, ws, artifact, prior, dl>>

\* LookupDone with the candidate added to `emails` before the verdict is
\* looked at.
LookupDone_AddsRejected(r, i, out) ==
    /\ ~crashed
    /\ i \in 1 .. Len(rows[r])
    /\ LET cands == hand[r][i].cands
           k == hand[r][i].k
       IN /\ k <= Len(cands)
          /\ LET e == cands[k]
                 ok == MxAccepts(out)
                 set == emails[r] \cup {e}
                 pending == Call(i, k, e, "pending", NoOutcome, "pending")
             IN IF MxSettles(out) = "reject"
                THEN /\ crashed' = TRUE
                     /\ vlog' = [vlog EXCEPT ![r] =
                           (@ \ {pending}) \cup {Call(i, k, e, "done", out, "thrown")}]
                     /\ UNCHANGED <<emails, results, src, hand>>
                ELSE /\ emails' = [emails EXCEPT ![r] = set]
                     /\ results' = [results EXCEPT ![r] =
                           IF ok
                           THEN Append(@, [name |-> hand[r][i].name, email |-> e])
                           ELSE @]
                     /\ src' = [src EXCEPT ![r] =
                           IF ok THEN Append(@, <<i, k>>) ELSE @]
                     /\ hand' = [hand EXCEPT ![r][i].k = LoopPos(cands, k + 1, set)]
                     /\ vlog' = [vlog EXCEPT ![r] =
                           (@ \ {pending})
                           \cup {Call(i, k, e, "done", out,
                                      IF ok THEN "true" ELSE "false")}
                           \cup LoopCalls(i, cands, k + 1, set)]
                     /\ UNCHANGED crashed
    /\ UNCHANGED <<reader, rows, resp, ws, artifact, prior, dl>>

\* The callback of dns.resolveMx for the candidate handler i waits on: the
\* promise settles, the handler resumes, collects the candidate if accepted,
\* and loops on.  (A rejected promise would make the await throw inside the
\* async handler, which nothing catches: the process dies of it.)
LookupDone(r, i, out) ==
    /\ ~crashed
    /\ i \in 1 .. Len(rows[r])
    /\ LET cands == hand[r][i].cands
           k == hand[r][i].k
       IN /\ k <= Len(cands)
          /\ LET e == cands[k]
                 ok == MxAccepts(out)
                 set == IF ok THEN emails[r] \cup {e} ELSE emails[r]
                 pending == Call(i, k, e, "pending", NoOutcome, "pending")
             IN IF MxSettles(out) = "reject"
                THEN /\ crashed' = TRUE
                     /\ vlog' = [vlog EXCEPT ![r] =
                           (@ \ {pending}) \cup {Call(i, k, e, "done", out, "thrown")}]
                     /\ UNCHANGED <<emails, results, src, hand>>
                ELSE /\ emails' = [emails EXCEPT ![r] = set]
                     /\ results' = [results EXCEPT ![r] =
                           IF ok
                           THEN Append(@, [name |-> hand[r][i].name, email |-> e])
                           ELSE @]
                     /\ src' = [src EXCEPT ![r] =
                           IF ok THEN Append(@, <<i, k>>) ELSE @]
                     /\ hand' = [hand EXCEPT ![r][i].k = LoopPos(cands, k + 1, set)]
                     /\ vlog' = [vlog EXCEPT ![r] =
                           (@ \ {pending})
                           \cup {Call(i, k, e, "done", out,
                                      IF ok THEN "true" ELSE "false")}
                           \cup LoopCalls(i, cands, k + 1, set)]
                     /\ UNCHANGED crashed
    /\ UNCHANGED <<reader, rows, resp, ws, artifact, prior, dl>>

\* The parser emits 'end': the write stream is created and the formatted
\* rows are piped to it, processCSV resolves and the route answers.
End(r) ==
    /\ ~crashed
    /\ reader[r] = "reading"
    /\ reader' = [reader EXCEPT ![r] = "ended"]
    /\ ws' = [ws EXCEPT ![r] =
                 [st |-> "opening", data |-> CsvWrite(results[r]), off |-> 0]]
    /\ resp' = [resp EXCEPT ![r] =
                   [status |-> StatusOk, body |-> "result",
                    file |-> OutputFilePath, emails |-> JsonList(results[r])]]
    /\ UNCHANGED <<rows, hand, emails, results, src, vlog, artifact, prior,
                   crashed, dl>>

\* StreamError with the error handler writing what was collected so far.
StreamError_WritesPartial(r) ==
    /\ ~crashed
    /\ reader[r] = "reading"
    /\ reader' = [reader EXCEPT ![r] = "error"]
    /\ ws' = [ws EXCEPT ![r] =
                 [st |-> "opening", data |-> CsvWrite(results[r]), off |-> 0]]
    /\ resp' = [resp EXCEPT ![r] =
                   [status |-> StatusError, body |-> "error", file |-> "",
                    emails |-> <<>>]]
    /\ UNCHANGED <<rows, hand, emails, results, src, vlog, artifact, prior,
                   crashed, dl>>

\* The parser emits 'error': processCSV rejects and the route answers 500.
StreamError(r) ==
    /\ ~crashed
    /\ reader[r] = "reading"
    /\ reader' = [reader EXCEPT ![r] = "error"]
    /\ resp' = [resp EXCEPT ![r] =
                   [status |-> StatusError, body |-> "error", file |-> "",
                    emails |-> <<>>]]
    /\ UNCHANGED <<rows, hand, emails, results, src, vlog, ws, artifact, prior,
                   crashed, dl>>

\* The write stream's open completes: flag 'w' creates or truncates the file.
WriteOpen(r) ==
    /\ ~crashed
    /\ ws[r].st = "opening"
    /\ ws' = [ws EXCEPT ![r].st = "open"]
    /\ artifact' = [exists |-> TRUE, lines |-> <<>>]
    /\ UNCHANGED <<reader, rows, hand, emails, results, src, vlog, resp, prior,
                   crashed, dl>>

\* The write stream writes its next line; after the last one it closes.
WriteChunk(r) ==
    /\ ~crashed
    /\ ws[r].st = "open"
    /\ artifact' = [artifact EXCEPT
                       !.lines = WriteAt(@, ws[r].off, ws[r].data[ws[r].off + 1])]
    /\ ws' = [ws EXCEPT ![r].off = @ + 1,
                        ![r].st = IF ws[r].off + 1 = Len(ws[r].data)
                                  THEN "closed" ELSE "open"]
    /\ UNCHANGED <<reader, rows, hand, emails, results, src, vlog, resp, prior,
                   crashed, dl>>

\* The open or a write fails: the write stream emits 'error', which nothing
\* listens to, and the process dies of the uncaught exception.
WriteFail(r) ==
    /\ ~crashed
    /\ ws[r].st \in {"opening", "open"}
    /\ ws' = [ws EXCEPT ![r].st = "failed"]
    /\ crashed' = TRUE
    /\ UNCHANGED <<reader, rows, hand, emails, results, src, vlog, resp,
                   artifact, prior, dl>>

\* The file multer stored the upload of run r in: UPLOAD_FOLDER, then
\* Date.now() + "-" + file.originalname.
UploadedPath(r) == "uploads/" \o ToString(r) \o "-input.csv"

\* A file of the server itself, relative to its working directory.
ProgramFile == "public/index.html"

\* The paths a download request may name.
DownloadPaths ==
    {OutputFilePath, ProgramFile, "uploads/never.csv"}
    \cup {UploadedPath(r) : r \in Runs}

\* fs.existsSync(file)
ExistsSync(path) ==
    \/ path = OutputFilePath /\ artifact.exists
    \/ path = ProgramFile
    \/ \E r \in Runs :
          path = UploadedPath(r) /\ reader[r] \in {"reading", "ended", "error"}

\* The path is the artifact of a run: an upload response returned it, or a
\* run before the server started left it on disk.
Produced(path) ==
    /\ path = OutputFilePath
    /\ prior.exists \/ \E r \in Runs : resp[r].file = path

\* GET /download?file=path: the file is streamed if it exists, else 404.
Download(path) ==
    /\ ~crashed
    /\ dl' = [path |-> path,
              status |-> IF ExistsSync(path) THEN StatusOk ELSE StatusNotFound,
              produced |-> Produced(path)]
    /\ UNCHANGED <<reader, rows, hand, emails, results, src, vlog, resp, ws,
                   artifact, prior, crashed>>

\* ---------------------------------------------------------- specifications
Step(r, pool, max) ==
    \/ Upload(r)
    \/ UploadNoFile(r)
    \/ \E row \in pool : ReadRow(r, row, max)
    \/ \E i \in 1 .. MaxRows, out \in MxOutcomes : LookupDone(r, i, out)
    \/ End(r)
    \/ StreamError(r)
    \/ ReadFail(r)
    \/ WriteOpen(r)
    \/ WriteChunk(r)
    \/ WriteFail(r)

\* One upload at a time: a single run, the artifact of an earlier run or
\* none on disk.
Next == \E r \in SoloRuns : Step(r, RowPool, MaxRows)

Spec == Init /\ [][Next]_vars

\* The input stream of a started run eventually ends or errors.
ReaderDone(r) == End(r) \/ StreamError(r) \/ ReadFail(r)

FairSpec == Spec /\ \A r \in SoloRuns : WF_vars(ReaderDone(r))

\* Several uploads processed concurrently, each of a file of at most one row.
NextConc == \E r \in Runs : Step(r, RowPoolConc, 1)

SpecConc == Init /\ [][NextConc]_vars

\* Two uploads processed concurrently, each of a file of at most one row
\* that may hold two emails.
WriteRuns == {1, 2}

NextWrite == \E r \in WriteRuns : Step(r, RowPoolWrite, 1)

SpecWrite == Init /\ [][NextWrite]_vars

\* One upload of a file of at most one row, and download requests.
NextDl ==
    \/ \E r \in SoloRuns : Step(r, RowPoolConc, 1)
    \/ \E path \in DownloadPaths : Download(path)

SpecDl == Init /\ [][NextDl]_vars

\* ----------------------------------------------------------------- claims
Range(s) == {s[j] : j \in DOMAIN s}

\* <<row, position>> a comes before b in the input.
Before(a, b) == a[1] < b[1] \/ (a[1] = b[1] /\ a[2] < b[2])

\* C1: dedup invariant.  In every reachable state no two entries of a run's
\* output sequence carry the same email, and neither do two entries of the
\* list the upload route returned.
C1_NoDuplicateEmails ==
    \A r \in Runs :
        /\ \A i, j \in 1 .. Len(results[r]) :
              i # j => results[r][i].email # results[r][j].email
        /\ \A i, j \in 1 .. Len(resp[r].emails) :
              i # j => resp[r].emails[i][2] # resp[r].emails[j][2]

\* C2: completeness at success.  Once the route has answered with success
\* (and so once the writer has started) no validation of the run is pending,
\* every handler has ended, and every candidate whose lookup succeeded is in
\* the returned list.
C2_CompleteAtSuccess ==
    \A r \in Runs :
        (resp[r].status = StatusOk \/ ws[r].st # "none") =>
            /\ \A c \in vlog[r] : c.res # "pending"
            /\ \A i \in 1 .. Len(hand[r]) :
                  hand[r][i].k > Len(hand[r][i].cands)
            /\ \A c \in vlog[r] :
                  c.res = "true" =>
                      <<hand[r][c.row].name, EmailStr(c.email)>>
                          \in Range(resp[r].emails)

\* C3: output order follows production order.  Of two entries of the output
\* sequence with different emails, each the first entry of its email, the
\* one that stands first has the earlier first accepted candidate.
FirstEntry(r, j) ==
    \A i \in 1 .. (j - 1) : results[r][i].email # results[r][j].email

FirstAccepted(r, e) ==
    CHOOSE a \in {src[r][j] : j \in {x \in 1 .. Len(results[r]) : results[r][x].email = e}} :
        \A j \in 1 .. Len(results[r]) :
            results[r][j].email = e => (a = src[r][j] \/ Before(a, src[r][j]))

C3_OutputInProductionOrder ==
    \A r \in Runs :
        \A i, j \in 1 .. Len(results[r]) :
            (i < j /\ FirstEntry(r, i) /\ FirstEntry(r, j)) =>
                Before(FirstAccepted(r, results[r][i].email),
                       FirstAccepted(r, results[r][j].email))

\* C4: blacklist short-circuit.  Every validateEmail call for an email with
\* a blacklisted domain resolved to false without a lookup, and no entry of
\* an output sequence has a blacklisted domain.
C4_BlacklistShortCircuit ==
    \A r \in Runs :
        /\ \A c \in vlog[r] :
              Domain(c.email) \in BLACKLISTED_DOMAINS =>
                  c.mx = "none" /\ c.res = "false"
        /\ \A j \in 1 .. Len(results[r]) :
              Domain(results[r][j].email) \notin BLACKLISTED_DOMAINS

\* A blacklisted candidate was rejected and a later candidate of the same
\* row was collected.
C4_Witness ==
    \E r \in Runs : \E c \in vlog[r] :
        /\ Domain(c.email) \in BLACKLISTED_DOMAINS
        /\ c.res = "false"
        /\ \E j \in 1 .. Len(src[r]) : src[r][j][1] = c.row /\ src[r][j][2] > c.pos

\* C5: validator acceptance.  A call for a non-blacklisted email that has
\* settled accepted exactly when its lookup ended without error and with at
\* least one record, and every entry of an output sequence is the candidate
\* of such a call.
C5_ValidatorAcceptance ==
    \A r \in Runs :
        /\ \A c \in vlog[r] :
              (Domain(c.email) \notin BLACKLISTED_DOMAINS /\ c.res # "pending") =>
                  (c.res = "true" <=> (c.mx = "done" /\ ~c.err /\ c.n >= 1))
        /\ \A j \in 1 .. Len(results[r]) :
              \E c \in vlog[r] :
                  /\ <<c.row, c.pos>> = src[r][j]
                  /\ c.email = results[r][j].email
                  /\ c.mx = "done" /\ ~c.err /\ c.n >= 1

\* One lookup returned no records and was rejected, another was accepted.
C5_Witness ==
    \E r \in Runs :
        /\ \E c \in vlog[r] : c.mx = "done" /\ ~c.err /\ c.n = 0 /\ c.res = "false"
        /\ \E c \in vlog[r] : c.mx = "done" /\ c.res = "true"
        /\ results[r] # <<>>

\* C6: lookup failure is absorbed.  A step in which a lookup of run r ends
\* in an error or without records changes neither the run's reader state nor
\* any response, seen set, output sequence or write stream, does not kill
\* the process, lets the handler move past that candidate and leaves every
\* other handler of the run where it was; and a run answers 500 only after
\* a stream error.
FailedLookups(r) ==
    {c \in vlog'[r] \ vlog[r] : c.mx = "done" /\ (c.err \/ c.n = 0)}

C6_LookupFailureAbsorbed ==
    [][\A r \in Runs :
         /\ \A c \in FailedLookups(r) :
               /\ reader'[r] = reader[r]
               /\ resp' = resp
               /\ emails' = emails
               /\ results' = results
               /\ ws' = ws
               /\ ~crashed'
               /\ hand'[r][c.row].k > c.pos
               /\ \A i \in 1 .. Len(hand[r]) :
                     i # c.row => hand'[r][i] = hand[r][i]
         /\ resp'[r].status = StatusError => reader'[r] = "error"]_vars

\* A lookup failed with an error, a later lookup of the run was accepted,
\* and the run answered with success.
C6_Witness ==
    \E r \in Runs :
        /\ \E c \in vlog[r] : c.mx = "done" /\ c.err
        /\ results[r] # <<>>
        /\ resp[r].status = StatusOk
        /\ resp[r].emails # <<>>

\* C7: success implies the artifact is written and equals the response.  For
\* a run with no other run beside it, once the route has answered with
\* success the artifact exists and holds the header line followed by exactly
\* the pairs of the response, in order.
C7_SuccessMeansWritten ==
    \A r \in SoloRuns :
        resp[r].status = StatusOk =>
            /\ artifact.exists
            /\ artifact.lines = <<Header>> \o resp[r].emails

\* C8: WriteError is terminal.  A run whose artifact write failed answered
\* with a processing failure, never with success.
C8_WriteErrorIsTerminal ==
    \A r \in Runs :
        ws[r].st = "failed" =>
            resp[r].status = StatusError /\ resp[r].body = "error"

\* C9: failure before the write stage leaves the artifact alone.  A run
\* whose reader raised an error answered 500 without a result list, never
\* created its write stream, and the artifact is as it was before the run.
C9_ParseErrorLeavesArtifact ==
    \A r \in SoloRuns :
        reader[r] = "error" =>
            /\ resp[r].status = StatusError
            /\ resp[r].body = "error"
            /\ resp[r].emails = <<>>
            /\ ws[r].st = "none"
            /\ artifact = prior

\* The reader failed after a candidate had been collected, with an earlier
\* artifact on disk.
C9_Witness ==
    \E r \in SoloRuns :
        /\ reader[r] = "error"
        /\ results[r] # <<>>
        /\ prior.exists

\* C10: skip invariant.  The step that reads a row of fewer than two fields
\* makes no validateEmail call and issues no lookup, changes no seen set,
\* output sequence or response, leaves the run reading and the process
\* alive, and leaves a handler that has already ended; no validateEmail call
\* is ever made for such a row.
ShortRowRead(r) ==
    /\ Len(rows'[r]) = Len(rows[r]) + 1
    /\ Len(rows'[r][Len(rows'[r])]) < 2

C10_SkipInvariant ==
    [][\A r \in Runs :
         /\ ShortRowRead(r) =>
               /\ vlog' = vlog
               /\ emails' = emails
               /\ results' = results
               /\ resp' = resp
               /\ reader'[r] = "reading"
               /\ ~crashed'
               /\ hand'[r][Len(rows'[r])].cands = <<>>
         /\ \A c \in vlog'[r] : Len(rows'[r][c.row]) >= 2]_vars

\* A short row was read first, and a candidate of the row after it was
\* collected.
C10_Witness ==
    \E r \in Runs :
        /\ Len(rows[r]) >= 2
        /\ Len(rows[r][1]) < 2
        /\ \E j \in 1 .. Len(src[r]) : src[r][j][1] = 2

\* C11: no file supplied.  A request without a file was answered 400 with no
\* result list; it read no row, made no validateEmail call and no lookup,
\* collected nothing, created no write stream, and (no other run beside it)
\* the artifact is as it was before the request.
C11_NoFileSupplied ==
    \A r \in SoloRuns :
        reader[r] = "nofile" =>
            /\ resp[r].status = StatusBadRequest
            /\ resp[r].body = "error"
            /\ resp[r].emails = <<>>
            /\ rows[r] = <<>> /\ hand[r] = <<>>
            /\ vlog[r] = {}
            /\ emails[r] = {} /\ results[r] = <<>>
            /\ ws[r].st = "none"
            /\ artifact = prior

\* A request without a file was answered, with no artifact on disk.
C11_Witness ==
    \E r \in SoloRuns :
        reader[r] = "nofile" /\ resp[r].status # 0 /\ ~artifact.exists

\* C12: download of a path that was never produced.  The download route
\* streams a file only when the requested path is the artifact of a run;
\* for every other path it answers 404.
C12_DownloadOnlyProduced ==
    /\ dl.status = StatusOk => dl.produced
    /\ (dl.status # 0 /\ ~dl.produced) => dl.status = StatusNotFound

\* C13: run isolation.  In every step of concurrent runs: the seen set and
\* the output sequence of at most one run change; the output sequence of a
\* run holds only candidates accepted by that run's own validateEmail calls,
\* under the name of that run's own row; its seen set holds only emails of
\* its own accepted candidates; every candidate a run accepted is in its
\* output sequence, whatever the other runs accepted; and the list a run
\* returned holds only entries of its own output sequence.
OwnAccepted(r) == {c \in vlog[r] : c.res = "true"}

Isolated(r) ==
    /\ \A j \in 1 .. Len(results[r]) :
          \E c \in OwnAccepted(r) :
              /\ <<c.row, c.pos>> = src[r][j]
              /\ c.email = results[r][j].email
              /\ hand[r][c.row].name = results[r][j].name
    /\ emails[r] \subseteq {c.email : c \in OwnAccepted(r)}
    /\ \A c \in OwnAccepted(r) :
          \E j \in 1 .. Len(results[r]) : <<c.row, c.pos>> = src[r][j]
    /\ Range(resp[r].emails) \subseteq Range(JsonList(results[r]))

Touched(r) == emails'[r] # emails[r] \/ results'[r] # results[r]

C13_RunIsolation ==
    [][/\ \A r \in Runs : Isolated(r)'
       /\ \A r1, r2 \in Runs : (Touched(r1) /\ Touched(r2)) => r1 = r2]_vars

\* Two runs in flight at once accepted the same email, each under its own
\* row, and both returned it.
C13_Witness ==
    \E r1, r2 \in Runs :
        /\ r1 # r2
        /\ results[r1] # <<>> /\ results[r2] # <<>>
        /\ results[r1][1].email = results[r2][1].email
        /\ resp[r1].emails # <<>> /\ resp[r2].emails # <<>>

\* C14: check-then-insert is atomic within a run.  No two handlers of
\* different rows of a run are both between the membership test and the
\* insertion for the same email: a call that has passed the test and awaits
\* its lookup is the only such call of its run for that email.
C14_CheckThenInsertAtomic ==
    \A r \in Runs :
        \A c1, c2 \in vlog[r] :
            (c1.mx = "pending" /\ c2.mx = "pending" /\ c1.email = c2.email)
                => c1.row = c2.row

\* C15: every distinct candidate is validated before the run completes.
\* Once the route has answered with success, validateEmail has been called
\* for every candidate email of every handler of the run.
C15_AllValidatedAtSuccess ==
    \A r \in Runs :
        resp[r].status = StatusOk =>
            \A i \in 1 .. Len(hand[r]) :
                \A k \in 1 .. Len(hand[r][i].cands) :
                    \E c \in vlog[r] : c.email = hand[r][i].cands[k]

\* C16: every run terminates with exactly one outcome.  Under weak fairness
\* of the reader, a run that has started reading eventually has its request
\* answered with success or with a processing failure, and an answer once
\* given never changes.
C16_RunTerminates ==
    /\ \A r \in SoloRuns :
           (reader[r] = "reading") ~> (resp[r].status \in {StatusOk, StatusError})
    /\ [][\A r \in SoloRuns : resp[r].status # 0 => resp'[r] = resp[r]]_vars

\* The emails appearing in a run's output sequence.
Collected(seq) == { seq[j].email : j \in 1 .. Len(seq) }

IsPrefix(s, t) == Len(s) <= Len(t) /\ SubSeq(t, 1, Len(s)) = s

\* C17: the seen set and the output sequence stay in step.  Before and after
\* every step the emails of the seen set are exactly the emails of the output
\* sequence, the seen set only grows, the output sequence is only extended at
\* its end, and an entry is appended in the step that inserts its email.
C17_SeenAndOutputInStep ==
    [][\A r \in SoloRuns :
          /\ emails[r] = Collected(results[r])
          /\ emails'[r] = Collected(results'[r])
          /\ emails[r] \subseteq emails'[r]
          /\ IsPrefix(results[r], results'[r])
          /\ (results'[r] # results[r] =>
                /\ Len(results'[r]) = Len(results[r]) + 1
                /\ emails'[r] = emails[r] \cup {results'[r][Len(results'[r])].email})
      ]_vars

\* A run has collected two different emails and one of them twice.
C17_Witness ==
    \E r \in SoloRuns :
        /\ Len(results[r]) > Cardinality(emails[r])
        /\ Cardinality(emails[r]) > 1
        /\ emails[r] = Collected(results[r])

\* C18: the artifact under concurrent runs.  Once the writes of two runs have
\* both finished, the artifact holds the header and the complete output of
\* exactly one of the two runs, never a mix of lines of both.
C18_ArtifactOfOneRun ==
    \A r1, r2 \in WriteRuns :
        (r1 # r2 /\ ws[r1].st = "closed" /\ ws[r2].st = "closed")
            => /\ artifact.exists
               /\ artifact.lines \in {ws[r1].data, ws[r2].data}

====
